---- MODULE Spec2Model ----
(***************************************************************************)
(* Model of the planner (src/planner.py) and of the file-generation loop   *)
(* of the orchestrator (src/repo_generator.py).                            *)
(*                                                                         *)
(* A prompt is a sequence of characters (one-character strings), so that   *)
(* lower-casing, substring search and the project-name regular expressions *)
(* are computed rather than assumed.                                       *)
(***************************************************************************)
EXTENDS Integers, Sequences, FiniteSets, TLC

VARIABLES prompt, pc, analysis, plan, prevFiles, calls, generated_files, skipped,
          attempts,
          refined_files, disk, result,
          write_args, tasks, results, raised, created_directories, written_files, returned,
          generation_status, generation_counter, run, now, status_response

\* the variables of the planner and of the file-generation loop
plannerVars == <<prompt, pc, analysis, plan, prevFiles, calls, generated_files, skipped,
                 attempts>>

\* the variables of RepositoryGenerator.generate_repository
repoVars == <<refined_files, disk, result>>

\* the variables of FileWriter and of one call of FileWriter.write_files
writerVars == <<write_args, tasks, results, raised, created_directories, written_files,
                returned>>

\* the variables of the API server: the status table, the counter of
\* submissions, the run_generation background tasks, the clock and the
\* answer to the last GET /status
serverVars == <<generation_status, generation_counter, run, now, status_response>>

vars == <<plannerVars, repoVars, writerVars, serverVars>>

(***************************************************************************)
(* Bounds of the model.                                                    *)
(***************************************************************************)
\* a prompt is made of at most MaxWords phrases of Vocab
MaxWords == 2
\* create_plan is called at most MaxCalls times on the same prompt
MaxCalls == 2
\* at most MaxFailures agents raise during one run of _generate_files
MaxFailures == 1
\* a prompt given to generate_repository is made of at most MaxRepoWords phrases
MaxRepoWords == 1
\* a prompt given to _extract_project_name is made of at most MaxNameWords pieces
MaxNameWords == 3
\* at most MaxTasks requests are posted to /generate
MaxTasks == 2
\* the clock of the server advances at most MaxTime seconds
MaxTime == 1
\* write_files is given at most MaxFiles files
MaxFiles == 2
\* at most MaxWriteFailures calls of write_file fail in each of _write_files
\* and _generate_project_files
MaxWriteFailures == 1

None == "None"

(***************************************************************************)
(* Characters and strings.                                                 *)
(***************************************************************************)
UpperLetters == <<"A","B","C","D","E","F","G","H","I","J","K","L","M",
                  "N","O","P","Q","R","S","T","U","V","W","X","Y","Z">>
LowerLetters == <<"a","b","c","d","e","f","g","h","i","j","k","l","m",
                  "n","o","p","q","r","s","t","u","v","w","x","y","z">>
Digits == {"0","1","2","3","4","5","6","7","8","9"}
Whitespace == {" ", "\t", "\n"}

Range(s) == {s[i] : i \in DOMAIN s}

IsSpace(c) == c \in Whitespace
IsAlpha(c) == c \in Range(UpperLetters) \cup Range(LowerLetters)
IsAlnum(c) == IsAlpha(c) \/ c \in Digits

\* str.lower() on one character
LowerChar(c) ==
  IF c \in Range(UpperLetters)
    THEN LowerLetters[CHOOSE i \in DOMAIN UpperLetters : UpperLetters[i] = c]
    ELSE c

\* str.lower()
Lower(s) == [i \in DOMAIN s |-> LowerChar(s[i])]

\* the literal lit occurs in s at position i
MatchAt(s, i, lit) ==
  /\ i >= 1
  /\ i + Len(lit) - 1 <= Len(s)
  /\ \A j \in 1..Len(lit) : s[i + j - 1] = lit[j]

\* Python's "keyword in s" on strings: substring test
Contains(s, keyword) == \E i \in 1..(Len(s) - Len(keyword) + 1) : MatchAt(s, i, keyword)

(***************************************************************************)
(* The bounded set of prompts: up to MaxWords phrases joined by a space.   *)
(***************************************************************************)

Vocab ==
  << <<"R","e","a","c","t">>,
     <<"v","u","e">>,
     <<"F","l","a","s","k">>,
     <<"n","o","d","e",".","j","s"," ","m","o","n","g","o","d","b">>,
     <<"S","t","r","i","p","e">>,
     <<"p","a","y","p","a","l">>,
     <<"g","o","o","g","l","e"," ","l","o","g","i","n">>,
     <<"a","w","s"," ","d","o","c","k","e","r"," ","t","w","i","l","i","o"," ","s","e","n","d","g","r","i","d">>,
     <<"c","h","a","t">>,
     <<"S","h","o","p">>,
     <<"b","u","d","g","e","t"," ","c","o","u","r","s","e">>,
     <<"C","r","e","a","t","e"," ","a"," ","t","a","s","k"," ","a","p","p">> >>

RECURSIVE Join(_)
Join(ws) ==
  IF ws = <<>> THEN <<>>
  ELSE IF Len(ws) = 1 THEN Vocab[ws[1]]
  ELSE Vocab[ws[1]] \o <<" ">> \o Join(Tail(ws))

PromptsUpTo(k) == {Join(ws) : ws \in UNION {[1..n -> DOMAIN Vocab] : n \in 0..k}}

Prompts == PromptsUpTo(MaxWords)

(***************************************************************************)
(* Vocabulary tables of PromptAnalyzer.__init__, in insertion order (the   *)
(* order in which dict.items() iterates).  A technology is represented by  *)
(* its TechStack value.                                                    *)
(***************************************************************************)

tech_keywords ==
  << <<<<"r","e","a","c","t">>, "react">>,
     <<<<"v","u","e">>, "vue">>,
     <<<<"a","n","g","u","l","a","r">>, "angular">>,
     <<<<"f","l","u","t","t","e","r">>, "flutter">>,
     <<<<"f","a","s","t","a","p","i">>, "fastapi">>,
     <<<<"f","l","a","s","k">>, "flask">>,
     <<<<"d","j","a","n","g","o">>, "django">>,
     <<<<"n","o","d","e","j","s">>, "nodejs">>,
     <<<<"n","o","d","e",".","j","s">>, "nodejs">>,
     <<<<"p","o","s","t","g","r","e","s","q","l">>, "postgresql">>,
     <<<<"p","o","s","t","g","r","e","s">>, "postgresql">>,
     <<<<"m","o","n","g","o","d","b">>, "mongodb">>,
     <<<<"m","o","n","g","o">>, "mongodb">>,
     <<<<"m","y","s","q","l">>, "mysql">>,
     <<<<"s","q","l","i","t","e">>, "sqlite">> >>

integration_keywords ==
  << <<<<"s","t","r","i","p","e">>, "payment">>,
     <<<<"p","a","y","p","a","l">>, "payment">>,
     <<<<"f","i","r","e","b","a","s","e">>, "backend_service">>,
     <<<<"s","u","p","a","b","a","s","e">>, "backend_service">>,
     <<<<"a","u","t","h","0">>, "authentication">>,
     <<<<"o","a","u","t","h">>, "authentication">>,
     <<<<"g","o","o","g","l","e">>, "authentication">>,
     <<<<"g","i","t","h","u","b">>, "authentication">>,
     <<<<"s","e","n","d","g","r","i","d">>, "email">>,
     <<<<"m","a","i","l","g","u","n">>, "email">>,
     <<<<"t","w","i","l","i","o">>, "sms">>,
     <<<<"a","w","s">>, "cloud">>,
     <<<<"a","z","u","r","e">>, "cloud">>,
     <<<<"g","c","p">>, "cloud">>,
     <<<<"d","o","c","k","e","r">>, "containerization">>,
     <<<<"k","u","b","e","r","n","e","t","e","s">>, "orchestration">> >>

feature_keywords ==
  << <<<<"u","s","e","r">>, {"authentication", "user_management"}>>,
     <<<<"l","o","g","i","n">>, {"authentication"}>>,
     <<<<"r","e","g","i","s","t","e","r">>, {"authentication", "user_management"}>>,
     <<<<"d","a","s","h","b","o","a","r","d">>, {"frontend", "analytics"}>>,
     <<<<"a","d","m","i","n">>, {"admin_panel", "user_management"}>>,
     <<<<"c","h","a","t">>, {"real_time", "messaging"}>>,
     <<<<"m","e","s","s","a","g","e">>, {"messaging"}>>,
     <<<<"n","o","t","i","f","i","c","a","t","i","o","n">>, {"real_time", "messaging"}>>,
     <<<<"f","i","l","e">>, {"file_upload", "storage"}>>,
     <<<<"i","m","a","g","e">>, {"file_upload", "storage"}>>,
     <<<<"u","p","l","o","a","d">>, {"file_upload", "storage"}>>,
     <<<<"p","a","y","m","e","n","t">>, {"payment_processing"}>>,
     <<<<"c","a","r","t">>, {"e_commerce", "shopping"}>>,
     <<<<"s","h","o","p">>, {"e_commerce", "shopping"}>>,
     <<<<"p","r","o","d","u","c","t">>, {"e_commerce", "catalog"}>>,
     <<<<"s","e","a","r","c","h">>, {"search_functionality"}>>,
     <<<<"f","i","l","t","e","r">>, {"search_functionality"}>>,
     <<<<"a","p","i">>, {"backend", "rest_api"}>>,
     <<<<"d","a","t","a","b","a","s","e">>, {"database", "data_storage"}>>,
     <<<<"r","e","a","l","-","t","i","m","e">>, {"real_time", "websockets"}>>,
     <<<<"r","e","s","p","o","n","s","i","v","e">>, {"responsive_design"}>>,
     <<<<"m","o","b","i","l","e">>, {"responsive_design", "mobile_app"}>> >>

FrontendTechs == {"react", "vue", "angular", "flutter"}
BackendTechs == {"fastapi", "flask", "django", "nodejs"}
DatabaseTechs == {"postgresql", "mongodb", "mysql", "sqlite"}

\* the members of the TechStack enum
TechStack == FrontendTechs \cup BackendTechs \cup DatabaseTechs

(***************************************************************************)
(* Dictionaries.                                                           *)
(***************************************************************************)
EmptyDict == [k \in {} |-> None]
Put(d, k, v) == [x \in DOMAIN d \cup {k} |-> IF x = k THEN v ELSE d[x]]

(***************************************************************************)
(* PromptAnalyzer._determine_project_type: the keyword groups in the order *)
(* of the if/elif chain.                                                   *)
(***************************************************************************)

project_type_groups ==
  << <<"e_commerce", {<<"e","-","c","o","m","m","e","r","c","e">>, <<"s","h","o","p">>, <<"s","t","o","r","e">>, <<"c","a","r","t">>}>>,
     <<"social_media", {<<"s","o","c","i","a","l">>, <<"c","h","a","t">>, <<"m","e","s","s","a","g","e">>, <<"s","o","c","i","a","l"," ","m","e","d","i","a">>}>>,
     <<"project_management", {<<"t","a","s","k">>, <<"p","r","o","j","e","c","t">>, <<"t","o","d","o">>, <<"m","a","n","a","g","e","m","e","n","t">>}>>,
     <<"content_management", {<<"b","l","o","g">>, <<"c","m","s">>, <<"c","o","n","t","e","n","t">>}>>,
     <<"finance", {<<"f","i","n","a","n","c","e">>, <<"b","u","d","g","e","t">>, <<"e","x","p","e","n","s","e">>}>>,
     <<"education", {<<"e","d","u","c","a","t","i","o","n">>, <<"l","e","a","r","n","i","n","g">>, <<"c","o","u","r","s","e">>}>> >>
AnyKeyword(p, keywords) == \E keyword \in keywords : Contains(p, keyword)

RECURSIVE TypeFrom(_, _)
TypeFrom(p, i) ==
  IF i > Len(project_type_groups) THEN "web_application"
  ELSE IF AnyKeyword(p, project_type_groups[i][2]) THEN project_type_groups[i][1]
  ELSE TypeFrom(p, i + 1)

\* mutant: the social_media group is tested before the e_commerce group
_determine_project_type_social_first(p, features) ==
  IF AnyKeyword(p, project_type_groups[2][2]) THEN "social_media" ELSE TypeFrom(p, 1)

_determine_project_type(p, features) == TypeFrom(p, 1)

(***************************************************************************)
(* PromptAnalyzer._extract_project_name.                                   *)
(*   verb\s+a\s+([a-zA-Z\s]+)\s+(?:app|system|platform|website)            *)
(* re.search returns the leftmost match; every quantifier is greedy, so    *)
(* among the matches at the leftmost start the engine returns the one with *)
(* the longest \s+ after "a" and then the longest group.                   *)
(***************************************************************************)
create == <<"c","r","e","a","t","e">>
build == <<"b","u","i","l","d">>
develop == <<"d","e","v","e","l","o","p">>
patterns == <<create, build, develop>>

Suffixes == { <<"a","p","p">>, <<"s","y","s","t","e","m">>,
              <<"p","l","a","t","f","o","r","m">>, <<"w","e","b","s","i","t","e">> }

generated_project == <<"g","e","n","e","r","a","t","e","d","_","p","r","o","j","e","c","t">>

\* first position at or after i that holds no whitespace
RECURSIVE WsEnd(_, _)
WsEnd(s, i) == IF i > Len(s) \/ ~IsSpace(s[i]) THEN i ELSE WsEnd(s, i + 1)

\* first position at or after i that is outside the class [a-zA-Z\s]
RECURSIVE ClassEnd(_, _)
ClassEnd(s, i) ==
  IF i > Len(s) \/ ~(IsAlpha(s[i]) \/ IsSpace(s[i])) THEN i ELSE ClassEnd(s, i + 1)

\* \s+(?:app|system|platform|website) matches at position b
TailAt(s, b) ==
  /\ b <= Len(s)
  /\ IsSpace(s[b])
  /\ \E suffix \in Suffixes : MatchAt(s, WsEnd(s, b), suffix)

\* the spans <<a, b>> of group 1 (s[a..b-1]) of the matches that start at i
GroupSpans(s, verb, i) ==
  IF ~MatchAt(s, i, verb) THEN {}
  ELSE LET j1 == i + Len(verb)
           j2 == WsEnd(s, j1)
       IN IF j2 = j1 \/ ~MatchAt(s, j2, <<"a">>) THEN {}
          ELSE LET j3 == j2 + 1
               IN { sp \in UNION { { <<a, b>> : b \in (a + 1)..ClassEnd(s, a) } :
                                   a \in (j3 + 1)..WsEnd(s, j3) } :
                      TailAt(s, sp[2]) }

SetMin(S) == CHOOSE x \in S : \A y \in S : x <= y
SetMax(S) == CHOOSE x \in S : \A y \in S : y <= x

\* re.search(pattern, s): whether it matched, and group(1)
search(s, verb) ==
  LET starts == {i \in 1..Len(s) : GroupSpans(s, verb, i) # {}}
  IN IF starts = {} THEN [found |-> FALSE, group |-> <<>>]
     ELSE LET spans == GroupSpans(s, verb, SetMin(starts))
              a == SetMax({sp[1] : sp \in spans})
              b == SetMax({sp[2] : sp \in {x \in spans : x[1] = a}})
          IN [found |-> TRUE, group |-> SubSeq(s, a, b - 1)]

\* str.strip()
strip(s) ==
  LET keep == {i \in DOMAIN s : ~IsSpace(s[i])}
  IN IF keep = {} THEN <<>> ELSE SubSeq(s, SetMin(keep), SetMax(keep))

\* re.sub(r'[^a-zA-Z0-9\s]', '', name)
RemoveSpecial(s) == SelectSeq(s, LAMBDA c : IsAlnum(c) \/ IsSpace(c))

\* re.sub(r'\s+', '_', name)
RECURSIVE Underscore(_)
Underscore(s) ==
  IF s = <<>> THEN <<>>
  ELSE IF IsSpace(Head(s))
    THEN <<"_">> \o Underscore(SubSeq(s, WsEnd(s, 1), Len(s)))
    ELSE <<Head(s)>> \o Underscore(Tail(s))

RECURSIVE NameFrom(_, _)
NameFrom(p, i) ==
  IF i > Len(patterns) THEN generated_project
  ELSE LET match == search(Lower(p), patterns[i])
       IN IF match.found
            THEN Underscore(RemoveSpecial(strip(match.group)))
            ELSE NameFrom(p, i + 1)

_extract_project_name(p) == NameFrom(p, 1)

(***************************************************************************)
(* PromptAnalyzer._estimate_complexity: int(3 + 0.5*f + 1.5*i) capped at   *)
(* 10; the halves are kept exact by doubling.                              *)
(***************************************************************************)
Min(a, b) == IF a <= b THEN a ELSE b

\* mutant: the scale starts at 1 instead of 3
_estimate_complexity_base_one(features, integrations) ==
  Min((2 * 1 + Cardinality(features) + Len(integrations) * 3) \div 2, 10)

_estimate_complexity(features, integrations) ==
  LET base_complexity2 == 2 * 3
      feature_complexity2 == Cardinality(features)
      integration_complexity2 == Len(integrations) * 3
      total_complexity2 == base_complexity2 + feature_complexity2 + integration_complexity2
  IN Min(total_complexity2 \div 2, 10)

(***************************************************************************)
(* PromptAnalyzer.analyze_prompt.                                          *)
(***************************************************************************)
\* mutant: a layer that is already set is not overwritten
RECURSIVE ScanTech_first_match(_, _, _)
ScanTech_first_match(p, i, tech_stack) ==
  IF i > Len(tech_keywords) THEN tech_stack
  ELSE LET keyword == tech_keywords[i][1]
           tech == tech_keywords[i][2]
           layer == IF tech \in FrontendTechs THEN "frontend"
                    ELSE IF tech \in BackendTechs THEN "backend" ELSE "database"
       IN ScanTech_first_match(p, i + 1,
            IF Contains(p, keyword) /\ layer \notin DOMAIN tech_stack
              THEN Put(tech_stack, layer, tech)
              ELSE tech_stack)

\* the loop over tech_keywords.items(): a later match of a layer overwrites
RECURSIVE ScanTech(_, _, _)
ScanTech(p, i, tech_stack) ==
  IF i > Len(tech_keywords) THEN tech_stack
  ELSE LET keyword == tech_keywords[i][1]
           tech == tech_keywords[i][2]
       IN ScanTech(p, i + 1,
            IF Contains(p, keyword)
              THEN IF tech \in FrontendTechs THEN Put(tech_stack, "frontend", tech)
                   ELSE IF tech \in BackendTechs THEN Put(tech_stack, "backend", tech)
                   ELSE IF tech \in DatabaseTechs THEN Put(tech_stack, "database", tech)
                   ELSE tech_stack
              ELSE tech_stack)

\* mutant: every missing layer is filled with the default of the frontend
SetDefault_always_react(tech_stack, layer, tech) ==
  IF layer \notin DOMAIN tech_stack THEN Put(tech_stack, layer, "react") ELSE tech_stack

\* the defaults of a layer that no keyword set
SetDefault(tech_stack, layer, tech) ==
  IF layer \notin DOMAIN tech_stack THEN Put(tech_stack, layer, tech) ELSE tech_stack

ExtractTechStack(p) ==
  SetDefault(SetDefault(SetDefault(ScanTech(p, 1, EmptyDict),
    "frontend", "react"), "backend", "fastapi"), "database", "postgresql")

\* the loop over integration_keywords.items(): a list, appended per keyword
RECURSIVE ScanIntegrations(_, _, _)
ScanIntegrations(p, i, integrations) ==
  IF i > Len(integration_keywords) THEN integrations
  ELSE ScanIntegrations(p, i + 1,
         IF Contains(p, integration_keywords[i][1])
           THEN Append(integrations, integration_keywords[i][2])
           ELSE integrations)

ExtractIntegrations(p) == ScanIntegrations(p, 1, <<>>)

\* the loop over feature_keywords.items(): a set, updated per keyword
ExtractFeatures(p) ==
  UNION { feature_keywords[i][2] :
            i \in {j \in DOMAIN feature_keywords : Contains(p, feature_keywords[j][1])} }

\* the orders in which list(features) can enumerate the set
RECURSIVE Orders(_)
Orders(S) ==
  IF S = {} THEN {<<>>}
  ELSE UNION { { <<x>> \o t : t \in Orders(S \ {x}) } : x \in S }

\* order is the iteration order of the features set that list() observes
analyze_prompt(p, order) ==
  LET prompt_lower == Lower(p)
      tech_stack == ExtractTechStack(prompt_lower)
      integrations == ExtractIntegrations(prompt_lower)
      features == ExtractFeatures(prompt_lower)
      project_type == _determine_project_type(prompt_lower, features)
      project_name == _extract_project_name(p)
  IN [ project_name |-> project_name,
       project_type |-> project_type,
       tech_stack |-> tech_stack,
       integrations |-> integrations,
       features |-> order,
       complexity |-> _estimate_complexity(features, integrations) ]

(***************************************************************************)
(* FileSpec (src/agents/types.py) and the FileType enum.                   *)
(***************************************************************************)
FileType == {"frontend", "backend", "database", "integration", "config", "documentation"}

FileSpec(path, type, agent, dependencies, description, priority, tech_stack) ==
  [ path |-> path, type |-> type, agent |-> agent, dependencies |-> dependencies,
    description |-> description, priority |-> priority, tech_stack |-> tech_stack ]

\* the elements of a list, without repetition
Elements(list) == {list[i] : i \in DOMAIN list}

\* Python's "x in list"
InList(x, list) == \E i \in DOMAIN list : list[i] = x

(***************************************************************************)
(* ProjectPlanner: the six skeleton generators and create_plan.            *)
(***************************************************************************)
\* mutant: only the first feature of the list is compared with authentication
_generate_frontend_files_first_feature(a) ==
  LET tech == a.tech_stack["frontend"]
  IN (IF tech = "react"
        THEN << FileSpec("frontend/src/App.jsx", "frontend", "frontend_agent", <<>>,
                         "Main React application component", 1, tech),
                FileSpec("frontend/src/components/Header.jsx", "frontend", "frontend_agent",
                         <<"App.jsx">>, "Header component", 2, tech),
                FileSpec("frontend/src/pages/Home.jsx", "frontend", "frontend_agent",
                         <<"App.jsx">>, "Home page component", 2, tech),
                FileSpec("frontend/package.json", "config", "frontend_agent", <<>>,
                         "Frontend package configuration", 1, tech) >>
        ELSE <<>>)
     \o
     (IF Len(a.features) > 0 /\ a.features[1] = "authentication"
        THEN << FileSpec("frontend/src/pages/Login.jsx", "frontend", "frontend_agent",
                         <<"App.jsx">>, "Login page component", 2, tech),
                FileSpec("frontend/src/pages/Register.jsx", "frontend", "frontend_agent",
                         <<"App.jsx">>, "Registration page component", 2, tech) >>
        ELSE <<>>)

_generate_frontend_files(a) ==
  LET tech == a.tech_stack["frontend"]
  IN (IF tech = "react"
        THEN << FileSpec("frontend/src/App.jsx", "frontend", "frontend_agent", <<>>,
                         "Main React application component", 1, tech),
                FileSpec("frontend/src/components/Header.jsx", "frontend", "frontend_agent",
                         <<"App.jsx">>, "Header component", 2, tech),
                FileSpec("frontend/src/pages/Home.jsx", "frontend", "frontend_agent",
                         <<"App.jsx">>, "Home page component", 2, tech),
                FileSpec("frontend/package.json", "config", "frontend_agent", <<>>,
                         "Frontend package configuration", 1, tech) >>
        ELSE <<>>)
     \o
     (IF InList("authentication", a.features)
        THEN << FileSpec("frontend/src/pages/Login.jsx", "frontend", "frontend_agent",
                         <<"App.jsx">>, "Login page component", 2, tech),
                FileSpec("frontend/src/pages/Register.jsx", "frontend", "frontend_agent",
                         <<"App.jsx">>, "Registration page component", 2, tech) >>
        ELSE <<>>)

_generate_backend_files(a) ==
  LET tech == a.tech_stack["backend"]
  IN IF tech = "fastapi"
       THEN << FileSpec("backend/main.py", "backend", "backend_agent", <<>>,
                        "FastAPI main application", 1, tech),
               FileSpec("backend/routers/auth.py", "backend", "backend_agent",
                        <<"main.py">>, "Authentication routes", 2, tech),
               FileSpec("backend/models/user.py", "backend", "backend_agent",
                        <<"main.py">>, "User model", 2, tech),
               FileSpec("backend/requirements.txt", "config", "backend_agent", <<>>,
                        "Backend dependencies", 1, tech) >>
       ELSE <<>>

\* mutant: the database skeleton is emitted for POSTGRESQL only
_generate_database_files_postgresql_only(a) ==
  LET tech == a.tech_stack["database"]
  IN IF tech = "postgresql"
       THEN << FileSpec("database/schema.sql", "database", "database_agent", <<>>,
                        "Database schema definition", 1, tech),
               FileSpec("database/migrations/001_initial.sql", "database", "database_agent",
                        <<"schema.sql">>, "Initial database migration", 2, tech) >>
       ELSE <<>>

_generate_database_files(a) ==
  LET tech == a.tech_stack["database"]
  IN << FileSpec("database/schema.sql", "database", "database_agent", <<>>,
                 "Database schema definition", 1, tech),
        FileSpec("database/migrations/001_initial.sql", "database", "database_agent",
                 <<"schema.sql">>, "Initial database migration", 2, tech) >>

\* the loop over analysis['integrations']
RECURSIVE IntegrationFiles(_, _)
IntegrationFiles(integrations, files) ==
  IF integrations = <<>> THEN files
  ELSE LET integration == Head(integrations)
       IN IntegrationFiles(Tail(integrations),
            IF integration = "payment"
              THEN Append(files,
                     FileSpec("backend/integrations/payment.py", "integration",
                              "integration_agent", <<"main.py">>,
                              "Payment integration (Stripe/PayPal)", 3, None))
            ELSE IF integration = "authentication"
              THEN Append(files,
                     FileSpec("backend/integrations/oauth.py", "integration",
                              "integration_agent", <<"main.py">>,
                              "OAuth integration", 3, None))
            ELSE files)

_generate_integration_files(a) == IntegrationFiles(a.integrations, <<>>)

\* mutant: the environment template gets priority 0
_generate_config_files_priority_zero(a) ==
  << FileSpec("docker-compose.yml", "config", "backend_agent", <<>>,
              "Docker Compose configuration", 3, None),
     FileSpec(".env.example", "config", "backend_agent", <<>>,
              "Environment variables example", 0, None),
     FileSpec(".gitignore", "config", "backend_agent", <<>>,
              "Git ignore file", 3, None) >>

\* mutant: the compose file is planned only for the Python backends, as
\* _generate_project_files writes it
_generate_config_files_compose_if_python(a) ==
  (IF a.tech_stack["backend"] \in {"fastapi", "flask", "django"}
     THEN << FileSpec("docker-compose.yml", "config", "backend_agent", <<>>,
                      "Docker Compose configuration", 3, None) >>
     ELSE <<>>)
  \o << FileSpec(".env.example", "config", "backend_agent", <<>>,
                 "Environment variables example", 2, None),
        FileSpec(".gitignore", "config", "backend_agent", <<>>,
                 "Git ignore file", 3, None) >>

_generate_config_files(a) ==
  << FileSpec("docker-compose.yml", "config", "backend_agent", <<>>,
              "Docker Compose configuration", 3, None),
     FileSpec(".env.example", "config", "backend_agent", <<>>,
              "Environment variables example", 2, None),
     FileSpec(".gitignore", "config", "backend_agent", <<>>,
              "Git ignore file", 3, None) >>

_generate_documentation_files(a) ==
  << FileSpec("README.md", "documentation", "refiner_agent", <<>>,
              "Project documentation", 2, None),
     FileSpec("docs/api.md", "documentation", "refiner_agent", <<"main.py">>,
              "API documentation", 3, None) >>

_get_dependencies(a) ==
  (IF a.tech_stack["frontend"] = "react"
     THEN <<"react", "react-dom", "react-router-dom">> ELSE <<>>)
  \o (IF a.tech_stack["backend"] = "fastapi"
        THEN <<"fastapi", "uvicorn", "pydantic">> ELSE <<>>)
  \o (IF a.tech_stack["database"] = "postgresql"
        THEN <<"psycopg2-binary", "sqlalchemy">> ELSE <<>>)
  \o (IF InList("authentication", a.features)
        THEN <<"python-jose", "passlib", "bcrypt">> ELSE <<>>)
  \o (IF InList("file_upload", a.features)
        THEN <<"python-multipart", "pillow">> ELSE <<>>)

\* order: see analyze_prompt
create_plan(p, order) ==
  LET a == analyze_prompt(p, order)
      files == _generate_frontend_files(a)
               \o _generate_backend_files(a)
               \o _generate_database_files(a)
               \o _generate_integration_files(a)
               \o _generate_config_files(a)
               \o _generate_documentation_files(a)
  IN [ project_name |-> a.project_name,
       description |-> <<"Generated", a.project_type, "application">>,
       tech_stack |-> a.tech_stack,
       files |-> files,
       dependencies |-> _get_dependencies(a),
       integrations |-> a.integrations,
       estimated_complexity |-> a.complexity ]

\* module-level create_generation_plan: a fresh ProjectPlanner per call
create_generation_plan(p, order) == create_plan(p, order)

(***************************************************************************)
(* RepositoryGenerator: the dispatch table and _generate_files.            *)
(***************************************************************************)
\* mutant: the refiner is registered under another key
agents_refiner_renamed == {"frontend_agent", "backend_agent", "database_agent",
                           "integration_agent", "refiner"}

\* the keys of self.agents
agents == {"frontend_agent", "backend_agent", "database_agent",
           "integration_agent", "refiner_agent"}

\* mutant: an unstable sort, which puts a file before the files of its priority
RECURSIVE InsertByPriority_unstable(_, _)
InsertByPriority_unstable(sorted, f) ==
  IF sorted = <<>> THEN <<f>>
  ELSE IF sorted[Len(sorted)].priority < f.priority THEN Append(sorted, f)
  ELSE Append(InsertByPriority_unstable(SubSeq(sorted, 1, Len(sorted) - 1), f),
              sorted[Len(sorted)])

\* sorted(plan.files, key=lambda f: f.priority): a stable insertion sort
RECURSIVE InsertByPriority(_, _)
InsertByPriority(sorted, f) ==
  IF sorted = <<>> THEN <<f>>
  ELSE IF sorted[Len(sorted)].priority <= f.priority THEN Append(sorted, f)
  ELSE Append(InsertByPriority(SubSeq(sorted, 1, Len(sorted) - 1), f), sorted[Len(sorted)])

RECURSIVE SortByPriority(_, _)
SortByPriority(files, sorted) ==
  IF files = <<>> THEN sorted
  ELSE SortByPriority(Tail(files), InsertByPriority(sorted, Head(files)))

\* one pass of the loop body on file_spec: what the pass did with the file
Attempt(file_spec, outcome) == [file |-> file_spec, outcome |-> outcome]

\* mutant: an agent that raises ends the loop
RECURSIVE GenerateLoop_break_on_error(_, _, _, _)
GenerateLoop_break_on_error(sorted_files, i, failing, acc) ==
  IF i > Len(sorted_files) THEN acc
  ELSE LET file_spec == sorted_files[i]
       IN IF file_spec.agent \notin agents
            THEN GenerateLoop_break_on_error(sorted_files, i + 1, failing,
                   [acc EXCEPT !.unknown = Append(@, file_spec.path),
                               !.attempts = Append(@, Attempt(file_spec, "unknown"))])
          ELSE IF i \in failing
            THEN [acc EXCEPT !.failed = Append(@, file_spec.path),
                             !.attempts = Append(@, Attempt(file_spec, "failed"))]
          ELSE GenerateLoop_break_on_error(sorted_files, i + 1, failing,
                 [acc EXCEPT !.paths = IF InList(file_spec.path, @) THEN @
                                       ELSE Append(@, file_spec.path),
                             !.attempts = Append(@, Attempt(file_spec, "generated"))])

\* The loop of _generate_files over the sorted files.  failing is the set of
\* positions (in the sorted order) at which the agent raises.  The result
\* holds the paths of generated_files in insertion order, the paths skipped
\* for an unknown agent and for a raised exception, and the passes of the
\* loop in the order in which they ran.
RECURSIVE GenerateLoop(_, _, _, _)
GenerateLoop(sorted_files, i, failing, acc) ==
  IF i > Len(sorted_files) THEN acc
  ELSE LET file_spec == sorted_files[i]
       IN GenerateLoop(sorted_files, i + 1, failing,
            IF file_spec.agent \notin agents
              THEN [acc EXCEPT !.unknown = Append(@, file_spec.path),
                               !.attempts = Append(@, Attempt(file_spec, "unknown"))]
            ELSE IF i \in failing
              THEN [acc EXCEPT !.failed = Append(@, file_spec.path),
                               !.attempts = Append(@, Attempt(file_spec, "failed"))]
            ELSE [acc EXCEPT !.paths = IF InList(file_spec.path, @) THEN @
                                       ELSE Append(@, file_spec.path),
                             !.attempts = Append(@, Attempt(file_spec, "generated"))])

_generate_files(pl, failing) ==
  GenerateLoop(SortByPriority(pl.files, <<>>), 1, failing,
               [paths |-> <<>>, unknown |-> <<>>, failed |-> <<>>, attempts |-> <<>>])

\* the subsets of S of at most k elements
RECURSIVE SubsetsUpTo(_, _)
SubsetsUpTo(S, k) ==
  IF k = 0 THEN {{}}
  ELSE LET smaller == SubsetsUpTo(S, k - 1)
       IN smaller \cup {F \cup {x} : F \in smaller, x \in S}

\* the sets of at most MaxFailures positions of the plan
FailureSets(pl) == SubsetsUpTo(1..Len(pl.files), MaxFailures)

(***************************************************************************)
(* The state machine: one prompt, on which analyze_prompt is called        *)
(* directly, or on which create_plan is called (repeatedly) and the plan   *)
(* then handed to _generate_files.                                         *)
(***************************************************************************)
Init ==
  /\ prompt \in Prompts
  /\ pc = "start"
  /\ analysis = None
  /\ plan = None
  /\ prevFiles = None
  /\ calls = 0
  /\ generated_files = None
  /\ skipped = None
  /\ attempts = None
  /\ refined_files = None
  /\ disk = None
  /\ result = None
  /\ write_args = None
  /\ tasks = None
  /\ results = None
  /\ raised = None
  /\ created_directories = None
  /\ written_files = None
  /\ returned = None
  /\ generation_status = None
  /\ generation_counter = 0
  /\ run = None
  /\ now = 0
  /\ status_response = None

\* the pieces of the prompts on which the project name is looked at: the
\* three verbs, a run of white space, a suffix and a name of two words
NameVocab ==
  << <<"C","r","e","a","t","e"," ","a">>,
     <<"b","u","i","l","d"," ","a">>,
     <<"D","e","v","e","l","o","p"," ","a">>,
     <<" ">>,
     <<"a","p","p">>,
     <<"T","a","s","k"," ","l","i","s","t">> >>

RECURSIVE JoinFrom(_, _)
JoinFrom(table, ws) ==
  IF ws = <<>> THEN <<>>
  ELSE IF Len(ws) = 1 THEN table[ws[1]]
  ELSE table[ws[1]] \o <<" ">> \o JoinFrom(table, Tail(ws))

NamePrompts ==
  {JoinFrom(NameVocab, ws) : ws \in UNION {[1..n -> DOMAIN NameVocab] : n \in 0..MaxNameWords}}

\* analyze_prompt on the prompts of NamePrompts
NameInit ==
  /\ prompt \in NamePrompts
  /\ pc = "start"
  /\ analysis = None
  /\ plan = None
  /\ prevFiles = None
  /\ calls = 0
  /\ generated_files = None
  /\ skipped = None
  /\ attempts = None
  /\ refined_files = None
  /\ disk = None
  /\ result = None
  /\ write_args = None
  /\ tasks = None
  /\ results = None
  /\ raised = None
  /\ created_directories = None
  /\ written_files = None
  /\ returned = None
  /\ generation_status = None
  /\ generation_counter = 0
  /\ run = None
  /\ now = 0
  /\ status_response = None

\* PromptAnalyzer.analyze_prompt(prompt)
AnalyzePrompt ==
  /\ pc = "start"
  /\ \E order \in Orders(ExtractFeatures(Lower(prompt))) :
       analysis' = analyze_prompt(prompt, order)
  /\ pc' = "analyzed"
  /\ UNCHANGED <<prompt, plan, prevFiles, calls, generated_files, skipped, attempts>>
  /\ UNCHANGED <<repoVars, writerVars>>
  /\ UNCHANGED serverVars

NameNext == AnalyzePrompt

SpecName == NameInit /\ [][NameNext]_vars

\* create_generation_plan(prompt); prevFiles keeps the files of the call before
CreatePlan ==
  /\ pc \in {"start", "planned"}
  /\ calls < MaxCalls
  /\ \E order \in Orders(ExtractFeatures(Lower(prompt))) :
       plan' = create_generation_plan(prompt, order)
  /\ prevFiles' = IF calls = 0 THEN None ELSE plan.files
  /\ calls' = calls + 1
  /\ pc' = "planned"
  /\ UNCHANGED <<prompt, analysis, generated_files, skipped, attempts>>
  /\ UNCHANGED <<repoVars, writerVars>>
  /\ UNCHANGED serverVars

\* RepositoryGenerator._generate_files(plan), which generate_repository calls
\* on the plan that its one call of create_generation_plan returned
GenerateFiles ==
  /\ pc = "planned"
  /\ calls = 1
  /\ \E failing \in FailureSets(plan) :
       LET r == _generate_files(plan, failing)
       IN /\ generated_files' = r.paths
          /\ skipped' = [unknown |-> r.unknown, failed |-> r.failed]
          /\ attempts' = r.attempts
  /\ pc' = "generated"
  /\ UNCHANGED <<prompt, analysis, plan, prevFiles, calls>>
  /\ UNCHANGED <<repoVars, writerVars>>
  /\ UNCHANGED serverVars

Next == AnalyzePrompt \/ CreatePlan \/ GenerateFiles

Spec == Init /\ [][Next]_vars

(***************************************************************************)
(* RepositoryGenerator.generate_repository, one action per step of the     *)
(* pipeline.  The disk holds, for every path under the project directory,  *)
(* the step that wrote its content last.                                   *)
(***************************************************************************)
GenerationResult(success, project_path, files, errors, warnings) ==
  [ success |-> success, project_path |-> project_path, generated_files |-> files,
    errors |-> errors, warnings |-> warnings ]

\* the except branch of generate_repository
FailureResult == GenerationResult(FALSE, <<>>, <<>>, <<"Generation failed">>, <<>>)

\* WizardCoderRefiner.refine(generated_files, plan): a mapping with the keys
\* of generated_files (the refiner rewrites contents only)
refine(files, pl) == files

\* write_file on every path of paths in order, except that the calls on the
\* paths of failing return False and write nothing
RECURSIVE WriteAll(_, _, _, _)
WriteAll(d, paths, failing, writer) ==
  IF paths = <<>> THEN d
  ELSE WriteAll(IF Head(paths) \in failing THEN d ELSE Put(d, Head(paths), writer),
                Tail(paths), failing, writer)

\* the paths that _generate_project_files writes
project_files(pl) ==
  <<"README.md", ".gitignore", ".env.example">>
  \o (IF \E layer \in DOMAIN pl.tech_stack :
           pl.tech_stack[layer] \in {"fastapi", "flask", "django"}
        THEN <<"docker-compose.yml">> ELSE <<>>)

RepoInit ==
  /\ prompt \in PromptsUpTo(MaxRepoWords)
  /\ pc = "repo_start"
  /\ analysis = None
  /\ plan = None
  /\ prevFiles = None
  /\ calls = 0
  /\ generated_files = None
  /\ skipped = None
  /\ attempts = None
  /\ refined_files = None
  /\ disk = EmptyDict
  /\ result = None
  /\ write_args = None
  /\ tasks = None
  /\ results = None
  /\ raised = None
  /\ created_directories = None
  /\ written_files = None
  /\ returned = None
  /\ generation_status = None
  /\ generation_counter = 0
  /\ run = None
  /\ now = 0
  /\ status_response = None

\* steps 1: ZephyrPlanner.plan(prompt), then create_generation_plan(prompt)
RepoPlan ==
  /\ pc = "repo_start"
  /\ \E order \in Orders(ExtractFeatures(Lower(prompt))) :
       plan' = create_generation_plan(prompt, order)
  /\ calls' = calls + 1
  /\ pc' = "repo_planned"
  /\ UNCHANGED <<prompt, analysis, prevFiles, generated_files, skipped, attempts>>
  /\ UNCHANGED <<repoVars, writerVars>>
  /\ UNCHANGED serverVars

\* step 2: _generate_files(plan)
RepoGenerate ==
  /\ pc = "repo_planned"
  /\ \E failing \in FailureSets(plan) :
       LET r == _generate_files(plan, failing)
       IN /\ generated_files' = r.paths
          /\ skipped' = [unknown |-> r.unknown, failed |-> r.failed]
          /\ attempts' = r.attempts
  /\ pc' = "repo_generated"
  /\ UNCHANGED <<prompt, analysis, plan, prevFiles, calls>>
  /\ UNCHANGED <<repoVars, writerVars>>
  /\ UNCHANGED serverVars

\* step 3: the refiner
RepoRefine ==
  /\ pc = "repo_generated"
  /\ refined_files' = refine(generated_files, plan)
  /\ pc' = "repo_refined"
  /\ UNCHANGED <<prompt, analysis, plan, prevFiles, calls, generated_files, skipped, attempts>>
  /\ UNCHANGED <<disk, result>>
  /\ UNCHANGED writerVars
  /\ UNCHANGED serverVars

\* step 4: _write_files(refined_files, plan); the value of write_file is dropped
RepoWrite ==
  /\ pc = "repo_refined"
  /\ \E failing \in SubsetsUpTo(Elements(refined_files), MaxWriteFailures) :
       disk' = WriteAll(disk, refined_files, failing, "refined")
  /\ pc' = "repo_written"
  /\ UNCHANGED <<prompt, analysis, plan, prevFiles, calls, generated_files, skipped, attempts>>
  /\ UNCHANGED <<refined_files, result>>
  /\ UNCHANGED writerVars
  /\ UNCHANGED serverVars

\* step 5 and the return: _generate_project_files(project_path, plan), then
\* GenerationResult(success=True, ...)
RepoFinish ==
  /\ pc = "repo_written"
  /\ \E failing \in SubsetsUpTo(Elements(project_files(plan)), MaxWriteFailures) :
       disk' = WriteAll(disk, project_files(plan), failing, "project")
  /\ result' = GenerationResult(TRUE, plan.project_name, refined_files, <<>>, <<>>)
  /\ pc' = "returned"
  /\ UNCHANGED <<prompt, analysis, plan, prevFiles, calls, generated_files, skipped, attempts>>
  /\ UNCHANGED refined_files
  /\ UNCHANGED writerVars
  /\ UNCHANGED serverVars

\* an exception of the planner model call, of the refiner or of os.makedirs
\* in _write_files, caught by the except branch
RepoRaise ==
  /\ pc \in {"repo_start", "repo_generated", "repo_refined"}
  /\ result' = FailureResult
  /\ pc' = "returned"
  /\ UNCHANGED <<prompt, analysis, plan, prevFiles, calls, generated_files, skipped, attempts>>
  /\ UNCHANGED <<refined_files, disk>>
  /\ UNCHANGED writerVars
  /\ UNCHANGED serverVars

RepoNext == RepoPlan \/ RepoGenerate \/ RepoRefine \/ RepoWrite \/ RepoFinish \/ RepoRaise

SpecRepo == RepoInit /\ [][RepoNext]_vars

(***************************************************************************)
(* FileWriter.write_files: one call, on a fresh FileWriter.  A path is the *)
(* sequence of its components.  asyncio.gather starts the write_file       *)
(* coroutines in the order of the tasks list; a coroutine runs without     *)
(* interruption up to its next await (of aiofiles.open, of f.write), so    *)
(* each action is one such stretch of one coroutine.                       *)
(***************************************************************************)
FileNames == {<<"a.py">>, <<"src", "b.py">>, <<"src", "c.py">>}

\* the key lists of the files argument: the keys of a dict are distinct
FileLists ==
  {l \in UNION {[1..n -> FileNames] : n \in 0..MaxFiles} :
     \A i, j \in DOMAIN l : i # j => l[i] # l[j]}

\* the base_path argument; <<>> is a false value (None, "")
BasePaths == {<<>>, <<"out">>}

\* os.path.join(base_path, file_path) if base_path else file_path
full_path(base_path, file_path) ==
  IF base_path # <<>> THEN base_path \o file_path ELSE file_path

\* os.path.dirname
dirname(path) == SubSeq(path, 1, Len(path) - 1)

\* the path that task i writes
TaskPath(i) == full_path(write_args.base_path, write_args.files[i])

\* write_file creates the directory of its path unless it has done so before
NeedsDirectory(i) ==
  dirname(TaskPath(i)) # <<>> /\ dirname(TaskPath(i)) \notin created_directories

\* a write_file that answers True from its except branch
write_file_except_true == TRUE

\* the except branch of write_file: the coroutine returns False
write_file_except == FALSE

\* the loop that collects the paths of the results that are True
RECURSIVE Collect(_, _, _, _)
Collect(args, res, i, acc) ==
  IF i > Len(args.files) THEN acc
  ELSE Collect(args, res, i + 1,
               IF res[i] = TRUE THEN Append(acc, full_path(args.base_path, args.files[i]))
               ELSE acc)

WriterInit ==
  /\ prompt = <<>>
  /\ pc = "w_call"
  /\ analysis = None
  /\ plan = None
  /\ prevFiles = None
  /\ calls = 0
  /\ generated_files = None
  /\ skipped = None
  /\ attempts = None
  /\ refined_files = None
  /\ disk = EmptyDict
  /\ result = None
  /\ write_args \in [files : FileLists, base_path : BasePaths]
  /\ tasks = <<>>
  /\ results = <<>>
  /\ raised = {}
  /\ created_directories = {}
  /\ written_files = <<>>
  /\ returned = None
  /\ generation_status = None
  /\ generation_counter = 0
  /\ run = None
  /\ now = 0
  /\ status_response = None

\* os.makedirs(base_path) succeeds; one coroutine per file is handed to gather
WriteFilesBegin ==
  /\ pc = "w_call"
  /\ tasks' = [i \in DOMAIN write_args.files |-> "ready"]
  /\ results' = [i \in DOMAIN write_args.files |-> None]
  /\ pc' = "w_gather"
  /\ UNCHANGED <<write_args, raised, created_directories, written_files, returned>>
  /\ UNCHANGED <<prompt, analysis, plan, prevFiles, calls, generated_files, skipped, attempts>>
  /\ UNCHANGED repoVars
  /\ UNCHANGED serverVars

\* os.makedirs(base_path) raises: the exception leaves write_files
WriteFilesRaise ==
  /\ pc = "w_call"
  /\ write_args.base_path # <<>>
  /\ pc' = "w_raised"
  /\ UNCHANGED writerVars
  /\ UNCHANGED <<prompt, analysis, plan, prevFiles, calls, generated_files, skipped, attempts>>
  /\ UNCHANGED repoVars
  /\ UNCHANGED serverVars

\* the event loop runs the coroutines for the first time in the order of tasks
IsNext(i) == tasks[i] = "ready" /\ \A j \in 1..(i - 1) : tasks[j] # "ready"

\* write_file up to the await of aiofiles.open
TaskStart(i) ==
  /\ pc = "w_gather"
  /\ IsNext(i)
  /\ created_directories' = IF NeedsDirectory(i)
                              THEN created_directories \cup {dirname(TaskPath(i))}
                              ELSE created_directories
  /\ tasks' = [tasks EXCEPT ![i] = "opening"]
  /\ UNCHANGED <<write_args, results, raised, written_files, returned>>
  /\ UNCHANGED <<prompt, pc, analysis, plan, prevFiles, calls, generated_files, skipped, attempts>>
  /\ UNCHANGED repoVars
  /\ UNCHANGED serverVars

\* the file is open for writing (created or truncated); await of f.write
TaskOpen(i) ==
  /\ pc = "w_gather"
  /\ tasks[i] = "opening"
  /\ disk' = Put(disk, TaskPath(i), "empty")
  /\ tasks' = [tasks EXCEPT ![i] = "writing"]
  /\ UNCHANGED <<write_args, results, raised, created_directories, written_files, returned>>
  /\ UNCHANGED <<prompt, pc, analysis, plan, prevFiles, calls, generated_files, skipped, attempts>>
  /\ UNCHANGED <<refined_files, result>>
  /\ UNCHANGED serverVars

\* the content is written and the file closed; write_file returns True
TaskWrite(i) ==
  /\ pc = "w_gather"
  /\ tasks[i] = "writing"
  /\ disk' = Put(disk, TaskPath(i), "written")
  /\ written_files' = Append(written_files, TaskPath(i))
  /\ results' = [results EXCEPT ![i] = TRUE]
  /\ tasks' = [tasks EXCEPT ![i] = "done"]
  /\ UNCHANGED <<write_args, raised, created_directories, returned>>
  /\ UNCHANGED <<prompt, pc, analysis, plan, prevFiles, calls, generated_files, skipped, attempts>>
  /\ UNCHANGED <<refined_files, result>>
  /\ UNCHANGED serverVars

\* os.makedirs, aiofiles.open or f.write raises in write_file
TaskRaise(i) ==
  /\ pc = "w_gather"
  /\ \/ IsNext(i) /\ NeedsDirectory(i)
     \/ tasks[i] \in {"opening", "writing"}
  /\ raised' = raised \cup {i}
  /\ results' = [results EXCEPT ![i] = write_file_except]
  /\ tasks' = [tasks EXCEPT ![i] = "done"]
  /\ UNCHANGED <<write_args, created_directories, written_files, returned>>
  /\ UNCHANGED <<prompt, pc, analysis, plan, prevFiles, calls, generated_files, skipped, attempts>>
  /\ UNCHANGED repoVars
  /\ UNCHANGED serverVars

\* gather has all results; write_files returns the collected paths
WriteFilesReturn ==
  /\ pc = "w_gather"
  /\ \A i \in DOMAIN tasks : tasks[i] = "done"
  /\ returned' = Collect(write_args, results, 1, <<>>)
  /\ pc' = "w_returned"
  /\ UNCHANGED <<write_args, tasks, results, raised, created_directories, written_files>>
  /\ UNCHANGED <<prompt, analysis, plan, prevFiles, calls, generated_files, skipped, attempts>>
  /\ UNCHANGED repoVars
  /\ UNCHANGED serverVars

WriterNext ==
  \/ WriteFilesBegin
  \/ WriteFilesRaise
  \/ \E i \in DOMAIN tasks : TaskStart(i)
  \/ \E i \in DOMAIN tasks : TaskOpen(i)
  \/ \E i \in DOMAIN tasks : TaskWrite(i)
  \/ \E i \in DOMAIN tasks : TaskRaise(i)
  \/ WriteFilesReturn

SpecWriter == WriterInit /\ [][WriterNext]_vars

(***************************************************************************)
(* The API server: POST /generate and the run_generation background tasks. *)
(* The handlers are coroutines of one event loop, so an action is the      *)
(* stretch of a handler between two awaits.  A progress is counted in      *)
(* tenths (0.1 is 1, 0.8 is 8, 1.0 is 10); an Optional field is Null or    *)
(* Some(value).                                                            *)
(***************************************************************************)
Null == <<>>
Some(value) == <<value>>

\* the requests: GenerationRequest(prompt, output_format)
Requests == [prompt : {"Create a task app"}, output_format : {"files", "zip"}]

\* a generate_repository that never returns
Outcomes_never == {}

\* what generate_repository returns to run_generation
Outcomes ==
  { GenerationResult(TRUE, generated_project, <<"README.md">>, <<>>, <<>>), FailureResult }

\* dict.update: the fields given replace those of the record
update(record, fields) ==
  [k \in DOMAIN record |-> IF k \in DOMAIN fields THEN fields[k] ELSE record[k]]

\* an update that reaches the record of every task
UpdateStatus_every_record(task_id, fields) ==
  [t \in DOMAIN generation_status |-> update(generation_status[t], fields)]

\* generation_status[task_id].update(fields), and the item assignments
\* generation_status[task_id][key] = value
UpdateStatus(task_id, fields) ==
  [generation_status EXCEPT ![task_id] = update(@, fields)]

\* final_result of run_generation: the download_url is added for a zip
final_result(r, output_format) ==
  IF output_format = "zip"
    THEN [ project_path |-> r.project_path, generated_files |-> r.generated_files,
           download_url |-> <<"projects", r.project_path, "download">> ]
    ELSE [ project_path |-> r.project_path, generated_files |-> r.generated_files ]

ServerInit ==
  /\ prompt = <<>>
  /\ pc = "serving"
  /\ analysis = None
  /\ plan = None
  /\ prevFiles = None
  /\ calls = 0
  /\ generated_files = None
  /\ skipped = None
  /\ attempts = None
  /\ refined_files = None
  /\ disk = None
  /\ result = None
  /\ write_args = None
  /\ tasks = None
  /\ results = None
  /\ raised = None
  /\ created_directories = None
  /\ written_files = None
  /\ returned = None
  /\ generation_status = EmptyDict
  /\ generation_counter = 0
  /\ run = EmptyDict
  /\ now = 0
  /\ status_response = Null

\* a task id made of the time stamp alone
new_task_id_timestamp_only(counter, timestamp) == <<0, timestamp>>

\* f"gen_{generation_counter}_{int(datetime.now().timestamp())}"
new_task_id(counter, timestamp) == <<counter, timestamp>>

\* POST /generate
PostGenerate ==
  /\ generation_counter < MaxTasks
  /\ \E request \in Requests :
       LET task_id == new_task_id(generation_counter + 1, now)
       IN /\ generation_counter' = generation_counter + 1
          /\ generation_status' =
               Put(generation_status, task_id,
                   [ task_id |-> task_id, status |-> "pending", progress |-> 0,
                     message |-> "Generation request received", started_at |-> now,
                     completed_at |-> Null, result |-> Null, error |-> Null,
                     prompt |-> request.prompt ])
          /\ run' = Put(run, task_id,
                        [pc |-> "queued", output_format |-> request.output_format,
                         outcome |-> None])
  /\ UNCHANGED <<now, status_response>>
  /\ UNCHANGED <<plannerVars, repoVars, writerVars>>

\* a run_generation that starts whatever the state of its task
RunStart_again(task_id) ==
  /\ generation_status' =
       UpdateStatus(task_id, [status |-> "in_progress", progress |-> 1,
                              message |-> "Analyzing prompt..."])
  /\ run' = [run EXCEPT ![task_id].pc = "awaiting"]
  /\ UNCHANGED <<generation_counter, now, status_response>>
  /\ UNCHANGED <<plannerVars, repoVars, writerVars>>

\* a run_generation that is suspended after its first assignment
RunStart_status_only(task_id) ==
  /\ run[task_id].pc = "queued"
  /\ generation_status' = UpdateStatus(task_id, [status |-> "in_progress"])
  /\ run' = [run EXCEPT ![task_id].pc = "awaiting"]
  /\ UNCHANGED <<generation_counter, now, status_response>>
  /\ UNCHANGED <<plannerVars, repoVars, writerVars>>

\* run_generation up to the await of generate_repository
RunStart(task_id) ==
  /\ run[task_id].pc = "queued"
  /\ generation_status' =
       UpdateStatus(task_id, [status |-> "in_progress", progress |-> 1,
                              message |-> "Analyzing prompt..."])
  /\ run' = [run EXCEPT ![task_id].pc = "awaiting"]
  /\ UNCHANGED <<generation_counter, now, status_response>>
  /\ UNCHANGED <<plannerVars, repoVars, writerVars>>

\* generate_repository returned a result with success: progress 0.8, the
\* archive if asked for, then the update to completed, with no await between
RunCompleted(task_id) ==
  /\ run[task_id].pc = "awaiting"
  /\ \E r \in Outcomes :
       /\ r.success
       /\ generation_status' =
            UpdateStatus(task_id,
              [ status |-> "completed", progress |-> 10,
                message |-> "Generation completed successfully",
                completed_at |-> Some(now),
                result |-> Some(final_result(r, run[task_id].output_format)) ])
  /\ run' = [run EXCEPT ![task_id].pc = "done", ![task_id].outcome = "completed"]
  /\ UNCHANGED <<generation_counter, now, status_response>>
  /\ UNCHANGED <<plannerVars, repoVars, writerVars>>

\* generate_repository returned a result without success: progress 0.8,
\* then the update to failed
RunFailed(task_id) ==
  /\ run[task_id].pc = "awaiting"
  /\ \E r \in Outcomes :
       /\ ~r.success
       /\ generation_status' =
            UpdateStatus(task_id,
              [ status |-> "failed", progress |-> 0, message |-> "Generation failed",
                completed_at |-> Some(now), error |-> Some(r.errors) ])
  /\ run' = [run EXCEPT ![task_id].pc = "done", ![task_id].outcome = "failed result"]
  /\ UNCHANGED <<generation_counter, now, status_response>>
  /\ UNCHANGED <<plannerVars, repoVars, writerVars>>

\* create_zip_archive raises after a result with success: the except branch
RunException(task_id) ==
  /\ run[task_id].pc = "awaiting"
  /\ run[task_id].output_format = "zip"
  /\ generation_status' =
       UpdateStatus(task_id,
         [ status |-> "failed", progress |-> 0, message |-> "Generation failed with error",
           completed_at |-> Some(now), error |-> Some(<<"str(e)">>) ])
  /\ run' = [run EXCEPT ![task_id].pc = "done", ![task_id].outcome = "exception"]
  /\ UNCHANGED <<generation_counter, now, status_response>>
  /\ UNCHANGED <<plannerVars, repoVars, writerVars>>

\* the task ids a client may ask for: those handed out so far, and one that
\* has not been handed out
TaskIds == DOMAIN generation_status \cup {<<generation_counter + 1, now>>}

\* the fields of GenerationStatusResponse
ResponseFields ==
  {"task_id", "status", "progress", "message", "started_at", "completed_at", "result", "error"}

\* a handler that answers 200 with an empty body for an unknown task
get_generation_status_always_ok(task_id) ==
  IF task_id \notin DOMAIN generation_status
    THEN [status_code |-> 200, body |-> Null]
    ELSE [status_code |-> 200,
          body |-> Some([k \in ResponseFields |-> generation_status[task_id][k]])]

\* get_generation_status(task_id): HTTPException 404, or the record's fields
get_generation_status(task_id) ==
  IF task_id \notin DOMAIN generation_status
    THEN [status_code |-> 404, body |-> Some("Generation task not found")]
    ELSE [status_code |-> 200,
          body |-> Some([k \in ResponseFields |-> generation_status[task_id][k]])]

\* GET /status/{task_id}
GetStatus ==
  /\ \E task_id \in TaskIds :
       status_response' = Some([task_id |-> task_id] @@ get_generation_status(task_id))
  /\ UNCHANGED <<generation_status, generation_counter, run, now>>
  /\ UNCHANGED <<plannerVars, repoVars, writerVars>>

\* datetime.now() moves on
Tick ==
  /\ now < MaxTime
  /\ now' = now + 1
  /\ UNCHANGED <<generation_status, generation_counter, run, status_response>>
  /\ UNCHANGED <<plannerVars, repoVars, writerVars>>

ServerNext ==
  \/ PostGenerate
  \/ \E task_id \in DOMAIN run : RunStart(task_id)
  \/ \E task_id \in DOMAIN run : RunCompleted(task_id)
  \/ \E task_id \in DOMAIN run : RunFailed(task_id)
  \/ \E task_id \in DOMAIN run : RunException(task_id)
  \/ Tick
  \/ GetStatus

SpecServer == ServerInit /\ [][ServerNext]_vars

\* the task ids that POST /generate can hand out
AllTaskIds == (1..MaxTasks) \X (0..MaxTime)

\* a step of the background task of task_id
RunStep(task_id) ==
  /\ task_id \in DOMAIN run
  /\ \/ RunStart(task_id)
     \/ RunCompleted(task_id)
     \/ RunFailed(task_id)
     \/ RunException(task_id)

\* The submissions and the background tasks, under an event loop that runs
\* every background task that is ready to run: a task that was added, and a
\* task whose awaited generate_repository is over.
\* Polls are left out: they change no record (GetStatus).
RunNext ==
  \/ PostGenerate
  \/ \E task_id \in AllTaskIds : RunStep(task_id)
  \/ Tick

SpecServerFair ==
  /\ ServerInit
  /\ [][RunNext]_vars
  /\ \A task_id \in AllTaskIds : WF_vars(RunStep(task_id))

(***************************************************************************)
(* Concurrent generation tasks: the server has one RepositoryGenerator and *)
(* one output directory, and every run_generation task awaits its own      *)
(* generate_repository, which is suspended at each await of write_file.    *)
(* The disk holds, for every file of every project directory, the task     *)
(* that wrote it last.  Agents and writes succeed here, and the tasks      *)
(* take turns between _write_files and _generate_project_files, which are  *)
(* some of the turns that the awaits allow.                                *)
(***************************************************************************)
TasksInit ==
  /\ prompt = <<>>
  /\ pc = "tasks"
  /\ analysis = None
  /\ plan = None
  /\ prevFiles = None
  /\ calls = 0
  /\ generated_files = None
  /\ skipped = None
  /\ attempts = None
  /\ refined_files = None
  /\ disk = EmptyDict
  /\ result = None
  /\ write_args = None
  /\ tasks = None
  /\ results = None
  /\ raised = None
  /\ created_directories = None
  /\ written_files = None
  /\ returned = None
  /\ generation_status = None
  /\ generation_counter = 0
  /\ run \in [1..MaxTasks -> [prompt : PromptsUpTo(MaxRepoWords), pc : {"queued"},
                              project_path : {Null}, files : {<<>>}, extra : {<<>>}]]
  /\ now = 0
  /\ status_response = None

\* generate_repository up to _write_files: the plan, the generated and
\* refined files, and project_path = os.path.join(output_dir, plan.project_name)
TaskPlan(t) ==
  /\ run[t].pc = "queued"
  /\ \E order \in Orders(ExtractFeatures(Lower(run[t].prompt))) :
       LET pl == create_generation_plan(run[t].prompt, order)
       IN run' = [run EXCEPT ![t].pc = "writing",
                             ![t].project_path = Some(pl.project_name),
                             ![t].files = refine(_generate_files(pl, {}).paths, pl),
                             ![t].extra = project_files(pl)]
  /\ UNCHANGED <<generation_status, generation_counter, now, status_response>>
  /\ UNCHANGED <<plannerVars, repoVars, writerVars>>

\* _write_files: every refined file is written under project_path
TaskWriteFiles(t) ==
  /\ run[t].pc = "writing"
  /\ disk' = WriteAll(disk, [i \in DOMAIN run[t].files |-> <<run[t].project_path[1], run[t].files[i]>>],
                      {}, t)
  /\ run' = [run EXCEPT ![t].pc = "written"]
  /\ UNCHANGED <<generation_status, generation_counter, now, status_response>>
  /\ UNCHANGED <<refined_files, result>>
  /\ UNCHANGED <<plannerVars, writerVars>>

\* _generate_project_files, after which generate_repository returns
TaskWriteExtra(t) ==
  /\ run[t].pc = "written"
  /\ disk' = WriteAll(disk, [i \in DOMAIN run[t].extra |-> <<run[t].project_path[1], run[t].extra[i]>>],
                      {}, t)
  /\ run' = [run EXCEPT ![t].pc = "completed"]
  /\ UNCHANGED <<generation_status, generation_counter, now, status_response>>
  /\ UNCHANGED <<refined_files, result>>
  /\ UNCHANGED <<plannerVars, writerVars>>

TasksNext ==
  \/ \E t \in 1..MaxTasks : TaskPlan(t)
  \/ \E t \in 1..MaxTasks : TaskWriteFiles(t)
  \/ \E t \in 1..MaxTasks : TaskWriteExtra(t)

SpecTasks == TasksInit /\ [][TasksNext]_vars

(***************************************************************************)
(* The template agents FrontendAgent and BackendAgent: generate_file       *)
(* dispatches on file_spec.tech_stack and raises ValueError for a value    *)
(* that is not a key of supported_frameworks.                              *)
(***************************************************************************)
supported_frameworks ==
  [ frontend_agent |-> {"react", "vue", "angular", "flutter"},
    backend_agent  |-> {"fastapi", "flask", "django", "nodejs"} ]

\* generate_file(file_spec, project_context) of the template agent raises
\* "Unsupported ... framework"
Unsupported(file_spec) ==
  /\ file_spec.agent \in DOMAIN supported_frameworks
  /\ file_spec.tech_stack \notin supported_frameworks[file_spec.agent]

(***************************************************************************)
(* Properties.                                                             *)
(***************************************************************************)
Planned == pc \in {"planned", "generated"}

PromptLower == Lower(prompt)

\* the keywords of tech_keywords that map to a technology of techs
LayerKeywords(techs) ==
  {tech_keywords[i][1] : i \in {j \in DOMAIN tech_keywords : tech_keywords[j][2] \in techs}}

NoDuplicates(list) == \A i, j \in DOMAIN list : list[i] = list[j] => i = j

\* C1: analyze_prompt returns a tech_stack with exactly the keys frontend,
\* backend and database, each holding a technology of its own layer; a layer
\* none of whose keywords occurs in the prompt holds its default.
C1_TechStackComplete ==
  pc = "analyzed" =>
    /\ DOMAIN analysis.tech_stack = {"frontend", "backend", "database"}
    /\ analysis.tech_stack["frontend"] \in {"react", "vue", "angular", "flutter"}
    /\ analysis.tech_stack["backend"] \in {"fastapi", "flask", "django", "nodejs"}
    /\ analysis.tech_stack["database"] \in {"postgresql", "mongodb", "mysql", "sqlite"}
    /\ ~AnyKeyword(PromptLower, LayerKeywords(FrontendTechs))
         => analysis.tech_stack["frontend"] = "react"
    /\ ~AnyKeyword(PromptLower, LayerKeywords(BackendTechs))
         => analysis.tech_stack["backend"] = "fastapi"
    /\ ~AnyKeyword(PromptLower, LayerKeywords(DatabaseTechs))
         => analysis.tech_stack["database"] = "postgresql"

\* C1 witness: an analysis in which one layer was set by a keyword and the
\* two others were filled with their defaults.
C1_Witness ==
  /\ pc = "analyzed"
  /\ AnyKeyword(PromptLower, LayerKeywords(FrontendTechs))
  /\ ~AnyKeyword(PromptLower, LayerKeywords(BackendTechs))
  /\ ~AnyKeyword(PromptLower, LayerKeywords(DatabaseTechs))
  /\ analysis.tech_stack["frontend"] = "vue"
  /\ analysis.tech_stack["backend"] = "fastapi"
  /\ analysis.tech_stack["database"] = "postgresql"

\* C2: the complexity of an analysis is an integer in 1..10 and equals
\* min(floor(3 + 0.5*f + 1.5*i), 10), f the number of distinct feature tags
\* and i the number of distinct integration categories.
C2_ComplexityOfDistinctCounts ==
  pc = "analyzed" =>
    LET f == Cardinality(Elements(analysis.features))
        i == Cardinality(Elements(analysis.integrations))
    IN /\ analysis.complexity \in 1..10
       /\ analysis.complexity = Min((6 + f + 3 * i) \div 2, 10)

\* C3: every plan has at least one file and every file has priority >= 1.
C3_FilesNonEmptyPriorityPositive ==
  Planned =>
    /\ Len(plan.files) >= 1
    /\ \A i \in DOMAIN plan.files : plan.files[i].priority >= 1

\* C3 witness: a plan for a stack with neither the REACT nor the FASTAPI
\* skeleton, which is the shortest plan there is.
C3_Witness ==
  /\ Planned
  /\ plan.tech_stack["frontend"] # "react"
  /\ plan.tech_stack["backend"] # "fastapi"
  /\ Len(plan.files) = 7

\* C4: every agent tag of a plan is one of the five known tags, each of the
\* five is a key of the dispatch table, and _generate_files skips no file
\* for an unknown agent.
C4_AgentsRegistered ==
  LET known == {"frontend_agent", "backend_agent", "database_agent",
                "integration_agent", "refiner_agent"}
  IN /\ Planned => \A i \in DOMAIN plan.files : plan.files[i].agent \in known
     /\ known \subseteq agents
     /\ pc = "generated" => skipped.unknown = <<>>

\* C4 witness: _generate_files has run on a plan that uses all five agents
\* and generated every file of it.
C4_Witness ==
  /\ pc = "generated"
  /\ {plan.files[i].agent : i \in DOMAIN plan.files} = agents
  /\ Elements(generated_files) = {plan.files[i].path : i \in DOMAIN plan.files}

\* C5: two calls of create_plan on the same prompt return the same files
\* sequence, whatever order the features set is enumerated in.
C5_PlanDeterministic ==
  (pc = "planned" /\ calls >= 2) => plan.files = prevFiles

\* C5 witness: create_plan was called twice on a prompt with several
\* features, authentication among them.
C5_Witness ==
  /\ pc = "planned"
  /\ calls >= 2
  /\ Cardinality(ExtractFeatures(PromptLower)) >= 3
  /\ "authentication" \in ExtractFeatures(PromptLower)
  /\ \E i \in DOMAIN plan.files : plan.files[i].path = "frontend/src/pages/Login.jsx"

\* C6: the analysis of the empty prompt is the default stack, no
\* integrations, no features, web_application, complexity 3 and the
\* fallback project name.
C6_EmptyPrompt ==
  (pc = "analyzed" /\ prompt = <<>>) =>
    /\ analysis.tech_stack = [frontend |-> "react", backend |-> "fastapi",
                              database |-> "postgresql"]
    /\ analysis.integrations = <<>>
    /\ analysis.features = <<>>
    /\ analysis.project_type = "web_application"
    /\ analysis.complexity = 3
    /\ analysis.project_name = <<"g","e","n","e","r","a","t","e","d","_",
                                 "p","r","o","j","e","c","t">>

\* C6 witness: the empty prompt was analyzed.
C6_Witness == pc = "analyzed" /\ prompt = <<>>

\* the files of a plan that belong to an area
AreaFiles(area) == {i \in DOMAIN plan.files : plan.files[i].type = area}

\* C7 (as stated): every plan has at least one entry of each of the areas
\* frontend, backend, database, config and documentation.
C7_AllFiveAreas ==
  Planned =>
    \A area \in {"frontend", "backend", "database", "config", "documentation"} :
      AreaFiles(area) # {}

\* C7 (amended): every plan has at least one entry of each of the areas
\* database, config and documentation; it has a frontend entry exactly when
\* the frontend is REACT or authentication is a feature, and a backend entry
\* exactly when the backend is FASTAPI.
C7_AreasPresent ==
  Planned =>
    /\ \A area \in {"database", "config", "documentation"} : AreaFiles(area) # {}
    /\ AreaFiles("frontend") # {}
         <=> (plan.tech_stack["frontend"] = "react"
              \/ "authentication" \in ExtractFeatures(PromptLower))
    /\ AreaFiles("backend") # {} <=> plan.tech_stack["backend"] = "fastapi"

\* C7 witness: a plan without frontend and backend entries.
C7_Witness ==
  /\ Planned
  /\ plan.tech_stack["frontend"] = "vue"
  /\ plan.tech_stack["backend"] = "flask"
  /\ AreaFiles("frontend") = {}
  /\ AreaFiles("backend") = {}

\* C8: the integrations of an analysis, and of a plan, hold each category at
\* most once.
C8_IntegrationsDistinct ==
  /\ pc = "analyzed" => NoDuplicates(analysis.integrations)
  /\ Planned => NoDuplicates(plan.integrations)

\* the number of files of the plan with the given path
PathCount(path) == Cardinality({i \in DOMAIN plan.files : plan.files[i].path = path})

\* C9: a plan has exactly one payment.py when payment is among its
\* integration categories and none otherwise, the same for oauth.py and
\* authentication, no other integration file, and no path twice.
C9_OneFilePerCategory ==
  Planned =>
    /\ PathCount("backend/integrations/payment.py")
         = (IF "payment" \in Elements(plan.integrations) THEN 1 ELSE 0)
    /\ PathCount("backend/integrations/oauth.py")
         = (IF "authentication" \in Elements(plan.integrations) THEN 1 ELSE 0)
    /\ \A i \in AreaFiles("integration") :
         plan.files[i].path \in {"backend/integrations/payment.py",
                                 "backend/integrations/oauth.py"}
    /\ \A i, j \in DOMAIN plan.files :
         plan.files[i].path = plan.files[j].path => i = j

TypeOrder == <<"e_commerce", "social_media", "project_management",
               "content_management", "finance", "education">>

\* a keyword of the named group occurs in the lower-cased prompt
GroupMatches(name) ==
  \E i \in DOMAIN project_type_groups :
    /\ project_type_groups[i][1] = name
    /\ AnyKeyword(PromptLower, project_type_groups[i][2])

\* C10: the project type is the first group, in the order e_commerce,
\* social_media, project_management, content_management, finance, education,
\* with a keyword in the lower-cased prompt, and web_application exactly when
\* no group has one.
C10_FirstGroupWins ==
  pc = "analyzed" =>
    /\ \A i \in DOMAIN TypeOrder :
         analysis.project_type = TypeOrder[i]
           <=> (GroupMatches(TypeOrder[i])
                /\ \A j \in 1..(i - 1) : ~GroupMatches(TypeOrder[j]))
    /\ analysis.project_type = "web_application"
         <=> \A i \in DOMAIN TypeOrder : ~GroupMatches(TypeOrder[i])

\* C10 witness: a keyword of social_media stands before the e_commerce
\* keyword in the prompt, and the type is e_commerce.
C10_Witness ==
  /\ pc = "analyzed"
  /\ analysis.project_type = "e_commerce"
  /\ \E i, j \in DOMAIN prompt :
       /\ i < j
       /\ MatchAt(PromptLower, i, <<"c","h","a","t">>)
       /\ MatchAt(PromptLower, j, <<"s","h","o","p">>)

\* the paths of the files of the plan that satisfy Test, in plan order
PathsWhere(Test(_)) ==
  LET sel == SelectSeq(plan.files, Test) IN [i \in DOMAIN sel |-> sel[i].path]

\* C17: when the frontend is not REACT, the plan has no frontend skeleton
\* entry at all, whatever the features are; login and register pages belong
\* to the REACT skeleton only.
C17_NoFrontendEntriesUnlessReact ==
  (Planned /\ plan.tech_stack["frontend"] # "react") =>
    \A i \in DOMAIN plan.files :
      /\ plan.files[i].agent # "frontend_agent"
      /\ plan.files[i].type # "frontend"

\* the greatest index of tech_keywords among the keywords of a technology of
\* techs that occur in the lower-cased prompt (0 when none occurs)
LastMatch(techs) ==
  LET hits == {i \in DOMAIN tech_keywords :
                 /\ tech_keywords[i][2] \in techs
                 /\ Contains(PromptLower, tech_keywords[i][1])}
  IN IF hits = {} THEN 0 ELSE SetMax(hits)

\* C19: a layer for which keywords occur in the prompt holds the technology
\* of the keyword that comes last in the table among them, wherever the
\* keywords stand in the prompt and whatever the other layers matched.
C19_LastTableKeywordWins ==
  pc = "analyzed" =>
    /\ LastMatch(FrontendTechs) > 0
         => analysis.tech_stack["frontend"] = tech_keywords[LastMatch(FrontendTechs)][2]
    /\ LastMatch(BackendTechs) > 0
         => analysis.tech_stack["backend"] = tech_keywords[LastMatch(BackendTechs)][2]
    /\ LastMatch(DatabaseTechs) > 0
         => analysis.tech_stack["database"] = tech_keywords[LastMatch(DatabaseTechs)][2]

\* C19 witness: vue stands before react in the prompt and the frontend is
\* VUE, the later of the two in the table.
C19_Witness ==
  /\ pc = "analyzed"
  /\ analysis.tech_stack["frontend"] = "vue"
  /\ \E i, j \in DOMAIN prompt :
       /\ i < j
       /\ MatchAt(PromptLower, i, <<"v","u","e">>)
       /\ MatchAt(PromptLower, j, <<"r","e","a","c","t">>)

IsDatabaseAgentFile(f) == f.agent = "database_agent"
IsConfigSkeletonFile(f) == f.type = "config" /\ f.tech_stack = None
IsDocumentationFile(f) == f.type = "documentation"

AttemptedFiles == [i \in DOMAIN attempts |-> attempts[i].file]

\* the files of priority n of a sequence of files, in their order
OfPriority(files, n) == SelectSeq(files, LAMBDA f : f.priority = n)

\* C18: the files are generated in non-decreasing priority order, and the
\* files of one priority in the order in which plan.files holds them.
C18_PriorityOrderStable ==
  pc = "generated" =>
    /\ \A i, j \in DOMAIN attempts :
         i < j => attempts[i].file.priority <= attempts[j].file.priority
    /\ \A n \in {plan.files[i].priority : i \in DOMAIN plan.files} :
         OfPriority(AttemptedFiles, n) = OfPriority(plan.files, n)

\* C18 witness: a generated plan in which a file of priority 1 stands after
\* one of priority 2 and a file of priority 2 after one of priority 3, and
\* several files share a priority.
C18_Witness ==
  /\ pc = "generated"
  /\ \E i, j \in DOMAIN plan.files :
       i < j /\ plan.files[i].priority = 2 /\ plan.files[j].priority = 1
  /\ \E i, j \in DOMAIN plan.files :
       i < j /\ plan.files[i].priority = 3 /\ plan.files[j].priority = 2
  /\ Len(OfPriority(plan.files, 2)) >= 2
  /\ AttemptedFiles # plan.files

\* the paths of a sequence of files, each once, in order of first occurrence
RECURSIVE DistinctPaths(_, _)
DistinctPaths(files, acc) ==
  IF files = <<>> THEN acc
  ELSE DistinctPaths(Tail(files),
         IF InList(Head(files).path, acc) THEN acc ELSE Append(acc, Head(files).path))

\* the files of the passes that generated a content, in the order of the passes
GeneratedFiles ==
  LET done == SelectSeq(attempts, LAMBDA a : a.outcome = "generated")
  IN [i \in DOMAIN done |-> done[i].file]

C13_GenerationFailureReported ==
  (pc = "returned" /\ result.success /\ skipped.failed # <<>>) =>
    /\ result.errors \o result.warnings # <<>>
    /\ \A i \in DOMAIN skipped.failed :
         InList(skipped.failed[i], result.errors \o result.warnings)

\* C14: when a write of _write_files failed and others succeeded, the result
\* has success=True, lists only files that are on disk, and has warnings.
C14_WriteFailureReported ==
  (/\ pc = "returned"
   /\ result.success
   /\ \E i \in DOMAIN refined_files : refined_files[i] \notin DOMAIN disk
   /\ \E i \in DOMAIN refined_files : refined_files[i] \in DOMAIN disk) =>
    /\ result.success
    /\ \A i \in DOMAIN result.generated_files : result.generated_files[i] \in DOMAIN disk
    /\ result.warnings # <<>>

\* the full paths, in the order of files, of the tasks in which nothing raised
RECURSIVE SucceededPaths(_, _)
SucceededPaths(i, acc) ==
  IF i > Len(write_args.files) THEN acc
  ELSE SucceededPaths(i + 1, IF i \in raised THEN acc ELSE Append(acc, TaskPath(i)))

\* C15: write_files starts one write per file whatever happens to the others,
\* a raising write does not leave write_files, and the returned list is
\* exactly the full paths of the writes that did not raise, which are all on
\* disk.
C15_WriteFilesIsolation ==
  /\ pc = "w_raised" => tasks = <<>>
  /\ pc = "w_gather" =>
       /\ DOMAIN tasks = DOMAIN write_args.files
       /\ \A i \in DOMAIN tasks : i \notin raised => tasks[i] # "done" \/ results[i] = TRUE
  /\ pc = "w_returned" =>
       /\ returned = SucceededPaths(1, <<>>)
       /\ \A i \in DOMAIN tasks :
            IF i \in raised THEN ~InList(TaskPath(i), returned)
            ELSE TaskPath(i) \in DOMAIN disk /\ disk[TaskPath(i)] = "written"

\* C15 witness: write_files has returned after the first write raised while
\* the second one was in flight, and the second one is in the returned list
C15_Witness ==
  /\ pc = "w_returned"
  /\ Len(write_args.files) >= 2
  /\ 1 \in raised
  /\ 2 \notin raised
  /\ returned = <<TaskPath(2)>>
  /\ written_files = returned

\* C11: in every step of the server, every record has one of the four
\* statuses and a progress within [0, 1], and the progress of a record is
\* not lower than it was before the step.
C11_StatusAndProgress ==
  [][\A t \in DOMAIN generation_status' :
       /\ generation_status'[t].status \in {"pending", "in_progress", "completed", "failed"}
       /\ generation_status'[t].progress \in 0..10
       /\ t \in DOMAIN generation_status =>
            generation_status'[t].progress >= generation_status[t].progress]_vars

\* C16: a run that ends on an exception or on a failed result leaves its
\* record with status failed and an error, and a step changes the record of
\* a task only if it is a step of that task's own run.
C16_FailureIsolated ==
  [][\A t \in DOMAIN generation_status :
       /\ run'[t].outcome \in {"exception", "failed result"} =>
            /\ generation_status'[t].status = "failed"
            /\ generation_status'[t].error # Null
       /\ generation_status'[t] # generation_status[t] =>
            /\ run'[t] # run[t]
            /\ \A u \in DOMAIN generation_status \ {t} :
                 generation_status'[u] = generation_status[u]]_vars

\* C16 witness: the run of one task has ended on an exception or on a failed
\* result while the run of another task is awaiting generate_repository
C16_Witness ==
  \E t, u \in DOMAIN run :
    /\ t # u
    /\ run[t].outcome \in {"exception", "failed result"}
    /\ generation_status[t].status = "failed"
    /\ generation_status[u].status = "in_progress"

\* C30: the project_name that analyze_prompt returns is non-empty and made
\* of lower-case letters and underscores only.
C30_ProjectNameWellFormed ==
  pc = "analyzed" =>
    /\ analysis.project_name # <<>>
    /\ \A i \in DOMAIN analysis.project_name :
         analysis.project_name[i] \in Range(LowerLetters) \cup {"_"}

\* C28: no file that create_plan gives to frontend_agent or backend_agent
\* makes the template agent's generate_file raise "Unsupported framework".
C28_TemplateAgentsAcceptPlan ==
  Planned => \A i \in DOMAIN plan.files : ~Unsupported(plan.files[i])

\* path.split('/')[-1] on the paths of a plan
basename ==
  [ p \in {".env.example", ".gitignore", "README.md", "docker-compose.yml"} |-> p ]
  @@ ( "backend/integrations/oauth.py" :> "oauth.py" )
  @@ ( "backend/integrations/payment.py" :> "payment.py" )
  @@ ( "backend/main.py" :> "main.py" )
  @@ ( "backend/models/user.py" :> "user.py" )
  @@ ( "backend/requirements.txt" :> "requirements.txt" )
  @@ ( "backend/routers/auth.py" :> "auth.py" )
  @@ ( "database/migrations/001_initial.sql" :> "001_initial.sql" )
  @@ ( "database/schema.sql" :> "schema.sql" )
  @@ ( "docs/api.md" :> "api.md" )
  @@ ( "frontend/package.json" :> "package.json" )
  @@ ( "frontend/src/App.jsx" :> "App.jsx" )
  @@ ( "frontend/src/components/Header.jsx" :> "Header.jsx" )
  @@ ( "frontend/src/pages/Home.jsx" :> "Home.jsx" )
  @@ ( "frontend/src/pages/Login.jsx" :> "Login.jsx" )
  @@ ( "frontend/src/pages/Register.jsx" :> "Register.jsx" )

\* a dependency names a file by its path or by its file name
Names(dependency, file_spec) ==
  file_spec.path = dependency \/ basename[file_spec.path] = dependency

\* C29: every dependency of a planned file names a file of the same plan
\* whose priority value is strictly lower than that of the dependent.
C29_DependenciesPlannedEarlier ==
  Planned =>
    \A i \in DOMAIN plan.files :
      \A k \in DOMAIN plan.files[i].dependencies :
        \E j \in DOMAIN plan.files :
          /\ Names(plan.files[i].dependencies[k], plan.files[j])
          /\ plan.files[j].priority < plan.files[i].priority

\* C21: a GET /status leaves the status table as it is; it answers 404 for
\* a task_id that has no record and otherwise 200 with the fields of that
\* task's record as they are at that moment.
C21_StatusReadOnly ==
  [][status_response' # status_response =>
       LET response == status_response'[1]
       IN /\ generation_status' = generation_status
          /\ IF response.task_id \in DOMAIN generation_status
               THEN /\ response.status_code = 200
                    /\ response.body =
                         Some([k \in ResponseFields |-> generation_status[response.task_id][k]])
               ELSE response.status_code = 404]_vars

\* C21 witness: the last answer was a 404 while the table holds a record,
\* of a task that has since been started
C21_Witness ==
  /\ status_response # Null
  /\ status_response[1].status_code = 404
  /\ \E t \in DOMAIN generation_status : generation_status[t].status # "pending"

\* C21 witness of the other case: the last answer was the record of a known
\* task that was in progress at the time of the request
C21_WitnessKnown ==
  /\ status_response # Null
  /\ status_response[1].status_code = 200
  /\ status_response[1].task_id \in DOMAIN generation_status
  /\ status_response[1].body[1].status = "in_progress"

\* the moves of a status that the life cycle allows
StatusMoves ==
  { <<"pending", "in_progress">>, <<"in_progress", "completed">>,
    <<"in_progress", "failed">> }

\* C22: a record is created as pending with progress 0.0 while its run is
\* still queued, its status moves only from pending to in_progress and from
\* in_progress to completed or failed, and once it is completed or failed
\* its status, result and error stay as they are.
C22_StatusLifeCycle ==
  [][\A t \in DOMAIN generation_status' :
       IF t \notin DOMAIN generation_status
         THEN /\ generation_status'[t].status = "pending"
              /\ generation_status'[t].progress = 0
              /\ run'[t].pc = "queued"
         ELSE /\ \/ generation_status'[t].status = generation_status[t].status
                 \/ <<generation_status[t].status, generation_status'[t].status>> \in StatusMoves
              /\ generation_status[t].status \in {"completed", "failed"} =>
                   /\ generation_status'[t].status = generation_status[t].status
                   /\ generation_status'[t].result = generation_status[t].result
                   /\ generation_status'[t].error = generation_status[t].error]_vars

\* C22 witness: one task has gone all the way to completed and another to
\* failed, and time has passed since
C22_Witness ==
  \E t, u \in DOMAIN generation_status :
    /\ generation_status[t].status = "completed"
    /\ generation_status[u].status = "failed"
    /\ generation_status[t].completed_at # Some(now)
    /\ generation_status[u].completed_at # Some(now)

\* a status record, or the body of a response, is internally consistent
Consistent(record) ==
  /\ record.status = "completed" =>
       /\ record.progress = 10
       /\ record.result # Null
       /\ record.completed_at # Null
       /\ record.error = Null
  /\ record.status = "failed" =>
       /\ record.error # Null
       /\ record.completed_at # Null
       /\ record.result = Null
  /\ record.status \in {"pending", "in_progress"} =>
       /\ record.completed_at = Null
       /\ record.result = Null
       /\ record.error = Null
       /\ record.progress = 0 <=> record.status = "pending"

\* C24: every record of the table, and every record that a poll has
\* answered with, is internally consistent.
C24_RecordsConsistent ==
  /\ \A t \in DOMAIN generation_status : Consistent(generation_status[t])
  /\ (status_response # Null /\ status_response[1].status_code = 200) =>
       Consistent(status_response[1].body[1])

\* C24 witness: a poll was answered with the record of a task in progress,
\* that task has failed since, and another task is completed
C24_Witness ==
  /\ status_response # Null
  /\ status_response[1].status_code = 200
  /\ status_response[1].body[1].status = "in_progress"
  /\ generation_status[status_response[1].task_id].status = "failed"
  /\ \E t \in DOMAIN generation_status : generation_status[t].status = "completed"

\* C25: the records are as many as the submissions, each under the task_id
\* it was given, and a step never removes or replaces the record of a task.
C25_TaskIdsDistinct ==
  [][/\ Cardinality(DOMAIN generation_status') = generation_counter'
     /\ \A t \in DOMAIN generation_status' : generation_status'[t].task_id = t
     /\ \A t \in DOMAIN generation_status :
          /\ t \in DOMAIN generation_status'
          /\ generation_status'[t].started_at = generation_status[t].started_at
          /\ generation_counter' # generation_counter =>
               generation_status'[t] = generation_status[t]]_vars

\* C25 witness: two submissions of the same second, the first of which has
\* already moved on
C25_Witness ==
  \E t, u \in DOMAIN generation_status :
    /\ t # u
    /\ generation_status[t].started_at = generation_status[u].started_at
    /\ generation_status[t].status = "in_progress"
    /\ generation_status[u].status = "pending"

\* C23: every task that has a record eventually has status completed or
\* failed.
C23_EveryTaskTerminates ==
  \A t \in AllTaskIds :
    (t \in DOMAIN generation_status) ~>
      (/\ t \in DOMAIN generation_status
       /\ generation_status[t].status \in {"completed", "failed"})

\* C23 witness: all the tasks that can be submitted have been, at different
\* seconds, and each one has reached completed or failed
C23_Witness ==
  /\ generation_counter = MaxTasks
  /\ \A t \in DOMAIN generation_status :
       generation_status[t].status \in {"completed", "failed"}
  /\ \E t, u \in DOMAIN generation_status : t[2] # u[2]

\* C27: after a successful run, every listed file that is on disk holds the
\* refined content written by _write_files: no later step has overwritten it.
C27_RefinedContentKept ==
  (pc = "returned" /\ result.success) =>
    \A i \in DOMAIN result.generated_files :
      result.generated_files[i] \in DOMAIN disk =>
        disk[result.generated_files[i]] = "refined"

\* C26: the project directory reported by a completed task holds only files
\* that this task wrote last.
C26_OwnProjectDirectory ==
  pc = "tasks" =>
    \A t \in DOMAIN run :
      run[t].pc = "completed" =>
        \A file \in DOMAIN disk :
          file[1] = run[t].project_path[1] => disk[file] = t

====
